---- MODULE Spec2Model ----
(***************************************************************************)
(* Retrieval core of rag-gene-discovery-assistant: the offline build       *)
(* (load_abstracts -> generate_embeddings -> build_faiss_index ->          *)
(* save_index, ragbio/embeddings/embedding_engine.py) and the query-time   *)
(* retrieval (ragbio/pipeline/rag_pipeline.py, src/rag_pipeline.py).       *)
(*                                                                         *)
(* Positions are 0-based as in the Python code; TLA+ sequences are 1-based,*)
(* so position p of a Python list is element p + 1 of the sequence.        *)
(* A vector is [dim, zero, unit, val]: its length, whether it is all-zero,  *)
(* whether it has been L2-normalized, and the text whose embedding it is   *)
(* (the provider is a function of the text).                               *)
(***************************************************************************)
EXTENDS Integers, Sequences, FiniteSets, TLC

\* ---------------------------------------------------------------- bounds
\* files in a small corpus directory
MaxDocs == 2
\* documents of the long corpus (one more than the checkpoint period)
LongLen == 501
\* largest k a query asks for
MaxK == 4
\* lines of a config.py
MaxLines == 2
\* largest top_k a pipeline run is called with
MaxTopK == 2
\* calls of run_pipeline on one assistant
MaxRuns == 2
\* ids in one batch of a PubMed search
MaxBatch == 2
\* largest record count a PubMed search reports
MaxTotal == 3
\* runs of the fetcher over the same folders
MaxFetchRuns == 2

\* ------------------------------------------------------------- constants
\* length of the placeholder vector, `[0] * 768`
ZeroDim == 768
\* checkpoint period, `(i + 1) % 500 == 0`
CheckpointEvery == 500
\* output dimensionality of the default model mxbai-embed-large
DefaultModelDim == 1024

\* provider output dimensionalities: MODEL_NAME is read from OLLAMA_MODEL,
\* default mxbai-embed-large (1024); nomic-embed-text gives 768
Dims == {ZeroDim, DefaultModelDim}

\* positions at which the provider may fail: in a small corpus, and in the
\* long one (the first position and the one that completes a period)
SmallFail == {0, 1}
LongFail == {0, CheckpointEvery - 1}

\* ----------------------------------------------------------------- texts
Space == " "

RECURSIVE LStrip(_)
LStrip(s) == IF s # <<>> /\ Head(s) = Space THEN LStrip(Tail(s)) ELSE s

RECURSIVE RStrip(_)
RStrip(s) ==
    IF s # <<>> /\ s[Len(s)] = Space THEN RStrip(SubSeq(s, 1, Len(s) - 1)) ELSE s

\* str.strip()
Strip(s) == RStrip(LStrip(s))

\* the files a corpus directory may hold: json is the ".json" suffix,
\* hasAbstract the presence of the "abstract" key
FileKinds ==
    { [json |-> TRUE,  hasAbstract |-> TRUE,  abstract |-> <<" ", "a">>],
      [json |-> TRUE,  hasAbstract |-> TRUE,  abstract |-> <<"b">>],
      [json |-> TRUE,  hasAbstract |-> TRUE,  abstract |-> <<" ">>],
      [json |-> TRUE,  hasAbstract |-> TRUE,  abstract |-> <<>>],
      [json |-> TRUE,  hasAbstract |-> FALSE, abstract |-> <<>>],
      [json |-> FALSE, hasAbstract |-> TRUE,  abstract |-> <<"a">>] }

\* a directory: file n is named n(.json) and its record has pmid n
SmallDirs == UNION { [1..n -> FileKinds] : n \in 0..MaxDocs }

\* directories of eligible records only
PlainKinds == { f \in FileKinds : f.json /\ f.hasAbstract /\ Len(f.abstract) > 0
                                  /\ f.abstract[Len(f.abstract)] # Space }
PlainDirs == UNION { [1..n -> PlainKinds] : n \in 0..MaxDocs }

LongDir(n) ==
    [k \in 1..n |-> [json |-> TRUE, hasAbstract |-> TRUE,
                     abstract |-> IF k % 3 = 0 THEN <<" ", "a">> ELSE <<"b">>]]

\* os.listdir: the names in an arbitrary order (every order for a small
\* directory, ascending and descending for a long one)
Listings(d) ==
    LET n == Len(d) IN
    IF n <= MaxDocs + 1
    THEN { o \in [1..n -> 1..n] : \A a, b \in 1..n : a # b => o[a] # o[b] }
    ELSE { [j \in 1..n |-> j], [j \in 1..n |-> n + 1 - j] }

\* the text taken without .strip()
RecordTextUntrimmed(f) == IF f.hasAbstract THEN f.abstract ELSE <<>>
\* data.get("abstract", "").strip()
RecordText(f) == Strip(IF f.hasAbstract THEN f.abstract ELSE <<>>)

\* load_abstracts over one listing order
LoadAbstracts(d, order) ==
    LET kept == SelectSeq(order, LAMBDA n : d[n].json /\ RecordText(d[n]) # <<>>)
    IN  [abstracts |-> [j \in 1..Len(kept) |-> RecordText(d[kept[j]])],
         pmids     |-> kept]

\* --------------------------------------------------------------- vectors
\* the placeholder, [0] * 768
ZeroVector == [dim |-> ZeroDim, zero |-> TRUE, unit |-> FALSE, val |-> <<>>]

\* ollama.embeddings(model, prompt)["embedding"]
ProviderVector(text, dim) ==
    [dim |-> dim, zero |-> FALSE, unit |-> FALSE, val |-> text]

\* the try/except of the loop body: the provider's vector, or the placeholder
EmbedOrZero(text, pos, dim, fails) ==
    IF pos \in fails THEN ZeroVector ELSE ProviderVector(text, dim)

\* the files on disk
AbsentFile == [state |-> "absent", embeddings |-> <<>>]
\* open(path, "w") has truncated the file and json.dump has not finished
PartialFile == [state |-> "partial", embeddings |-> <<>>]
\* a dump that leaves out the last vector
CheckpointContentShort(embs) ==
    [state |-> "complete", embeddings |-> SubSeq(embs, 1, Len(embs) - 1)]
\* json.dump({"embeddings": embeddings}, f), completed and closed
CheckpointContent(embs) == [state |-> "complete", embeddings |-> embs]

\* os.path.exists(checkpoint_path)
CheckpointExists(file) == file.state # "absent"
\* json.load(f) of a truncated file raises JSONDecodeError
CheckpointLoads(file) == file.state = "complete"
\* a resume that goes back to the first placeholder of the checkpoint
ResumeIndexAtFailure(file) ==
    LET z == { p \in 1..Len(file.embeddings) : file.embeddings[p].zero }
    IN IF z = {} THEN Len(file.embeddings)
       ELSE (CHOOSE p \in z : \A r \in z : p <= r) - 1
\* a resume that starts over at position 0
ResumeIndexRestart(file) == 0
\* start_idx = len(saved.get("embeddings", []))
ResumeIndex(file) == Len(file.embeddings)
\* a resume that drops the vectors of the checkpoint
ResumeEmbeddingsLost(file) == <<>>
\* embeddings = saved["embeddings"]
ResumeEmbeddings(file) == file.embeddings

\* a checkpoint test on i instead of i + 1
CheckpointDueLate(pos) == pos % CheckpointEvery = 0
\* (i + 1) % 500 == 0
CheckpointDue(pos) == (pos + 1) % CheckpointEvery = 0

\* generate_embeddings(texts, model, checkpoint_path=None): one uninterrupted
\* pass, the loop body applied to the positions 0 .. len(texts) - 1 in turn
OnePass(texts, dim, fails) ==
    [p \in 1..Len(texts) |-> EmbedOrZero(texts[p], p - 1, dim, fails)]

\* np.array(embeddings, dtype="float32") raises on rows of unequal length
Ragged(embs) == \E a, b \in 1..Len(embs) : embs[a].dim # embs[b].dim

\* the array np.array returns: shape (N, D) and the rows
NpArray(embs) ==
    [n |-> Len(embs), d |-> IF embs = <<>> THEN 0 ELSE embs[1].dim, rows |-> embs]

\* faiss.normalize_L2 on one row: a zero row is left as it is
NormalizeL2(v) == IF v.zero THEN v ELSE [v EXCEPT !.unit = TRUE]

\* faiss.IndexFlatIP(dim) followed by index.add(embeddings)
FlatIndex(arr, backend) ==
    [d |-> arr.d, backend |-> backend,
     rows |-> [r \in 1..arr.n |-> NormalizeL2(arr.rows[r])]]

NoIndex == [d |-> 0, backend |-> "none", rows |-> <<>>]

\* ------------------------------------------------------------- retrieval
\* texts a query may be
Queries == { <<"a">>, <<"b">> }

\* inner product of two rows, in hundredths: 100 for two unit vectors of the
\* same text, 40 for unit vectors of different texts, 0 with a zero vector
InnerProduct(q, row) ==
    IF q.zero \/ row.zero THEN 0
    ELSE IF q.val = row.val /\ q.unit /\ row.unit THEN 100 ELSE 40

\* the score faiss reports for a slot it could not fill (-FLT_MAX)
UnfilledScore == 0 - 1000000

\* the best row not yet taken: highest inner product, lowest row first
BestRow(ix, q, taken) ==
    CHOOSE r \in (1..Len(ix.rows)) \ taken :
        \A o \in (1..Len(ix.rows)) \ taken :
            \/ InnerProduct(q, ix.rows[r]) > InnerProduct(q, ix.rows[o])
            \/ InnerProduct(q, ix.rows[r]) = InnerProduct(q, ix.rows[o]) /\ r <= o

\* index.search(query_emb, k) of a flat inner-product index: k slots, the
\* rows by descending score, label -1 in the slots past ntotal
RECURSIVE SearchFrom(_, _, _, _, _)
SearchFrom(ix, q, k, taken, acc) ==
    IF Len(acc) >= k THEN acc
    ELSE IF Cardinality(taken) >= Len(ix.rows)
         THEN SearchFrom(ix, q, k, taken,
                         Append(acc, [label |-> 0 - 1, score |-> UnfilledScore]))
         ELSE LET r == BestRow(ix, q, taken) IN
              SearchFrom(ix, q, k, taken \cup {r},
                         Append(acc, [label |-> r - 1,
                                      score |-> InnerProduct(q, ix.rows[r])]))

Search(ix, q, k) == SearchFrom(ix, q, k, {}, <<>>)

\* Python list indexing, pmid_map[j]: a negative j counts from the end
PyInRange(list, j) == j < Len(list) /\ 0 - j <= Len(list)
PyIndex(list, j) == IF j >= 0 THEN list[j + 1] ELSE list[Len(list) + j + 1]

\* a mapping that pairs the scores with the ids of the slots in reverse
MapSlotsMispaired(pmid_map, slots) ==
    IF \E s \in 1..Len(slots) : ~PyInRange(pmid_map, slots[s].label)
    THEN [error |-> "index_error", ids |-> <<>>, scores |-> <<>>]
    ELSE [error |-> "none",
          ids |-> [s \in 1..Len(slots) |->
                     PyIndex(pmid_map, slots[Len(slots) + 1 - s].label)],
          scores |-> [s \in 1..Len(slots) |-> slots[s].score]]
\* the loop of _get_relevant_documents / the comprehension of
\* retrieve_top_pmids over the slots of the search
MapSlots(pmid_map, slots) ==
    IF \E s \in 1..Len(slots) : ~PyInRange(pmid_map, slots[s].label)
    THEN [error |-> "index_error", ids |-> <<>>, scores |-> <<>>]
    ELSE [error |-> "none",
          ids |-> [s \in 1..Len(slots) |-> PyIndex(pmid_map, slots[s].label)],
          scores |-> [s \in 1..Len(slots) |-> slots[s].score]]

\* ---------------------------------------------------------------- config
\* A line of config.py is the sequence of its tokens; a Python argument is
\* [given, val], given = FALSE standing for None.
Whitespace == {" ", "\n"}
NewLine == "\n"

\* the lines a config.py may hold: the assignments of the test's file and of
\* ragbio/config.py (where WORKSPACE_DIR is assigned inside an if/else), one
\* of them without blanks around "=" and one without the final newline,
\* another setting and a comment
LineKinds ==
    { <<"WORKSPACE_DIR", " ", "=", " ", "\"", "/", "old", "\"", NewLine>>,
      <<" ", "WORKSPACE_DIR", " ", "=", " ", "\"", "/", "old", "\"", NewLine>>,
      <<"BASE_PATH", "=", "r", "\"", "/", "old", "\"", NewLine>>,
      <<"TOP_K", " ", "=", " ", "15", NewLine>>,
      <<"USE_GPU", " ", "=", " ", "True">>,
      <<"OTHER_SETTING", " ", "=", " ", "\"", "keep", "\"", NewLine>>,
      <<"#", " ", "TOP_K", " ", "=", " ", "5", NewLine>> }

\* f.readlines(): every line but the last ends with a newline
ConfigFiles ==
    { f \in UNION { [1..n -> LineKinds] : n \in 0..MaxLines } :
        \A n \in 1..Len(f) : n < Len(f) => f[n][Len(f[n])] = NewLine }

\* the arguments update_config_file is called with
NoPath == [given |-> FALSE, val |-> <<>>]
NoTopK == [given |-> FALSE, val |-> 0]
NoUseGpu == [given |-> FALSE, val |-> FALSE]
WorkspaceArgs ==
    { NoPath, [given |-> TRUE, val |-> <<>>], [given |-> TRUE, val |-> <<"/", "w">>],
      [given |-> TRUE, val |-> <<"/", "w", "/">>] }
TopKArgs == { NoTopK, [given |-> TRUE, val |-> 0], [given |-> TRUE, val |-> 20] }
UseGpuArgs == { NoUseGpu, [given |-> TRUE, val |-> TRUE], [given |-> TRUE, val |-> FALSE] }

\* Python truthiness of a string argument and of an int argument
TruthyStr(arg) == arg.given /\ arg.val # <<>>
TruthyInt(arg) == arg.given /\ arg.val # 0

\* os.path.join(a, b) for a relative b
PathJoin(a, b) ==
    IF a = <<>> THEN b
    ELSE IF a[Len(a)] = "/" THEN a \o b ELSE a \o <<"/">> \o b

\* base_path = os.path.join(workspace_dir, "data", "PubMed") if workspace_dir
\* else None
BasePath(workspace_dir) ==
    IF TruthyStr(workspace_dir)
    THEN [given |-> TRUE,
          val |-> PathJoin(PathJoin(workspace_dir.val, <<"data">>), <<"PubMed">>)]
    ELSE NoPath

\* a pattern that is searched for anywhere in the line
ReMatchUnanchored(name, line) ==
    \E b \in 1..Len(line) : \E e \in (b + 1)..Len(line) :
        /\ line[b] = name /\ line[e] = "="
        /\ \A m \in (b + 1)..(e - 1) : line[m] \in Whitespace
\* re.match(r"^NAME\s*=", line)
ReMatch(name, line) ==
    \E b \in {1} : \E e \in (b + 1)..Len(line) :
        /\ line[b] = name /\ line[e] = "="
        /\ \A m \in (b + 1)..(e - 1) : line[m] \in Whitespace

\* str() of a bool
BoolText(b) == IF b THEN "True" ELSE "False"

\* the body of the loop over the lines: the if/elif chain
UpdatedLine(line, workspace_dir, top_k, use_gpu) ==
    LET base_path == BasePath(workspace_dir) IN
    IF TruthyStr(workspace_dir) /\ ReMatch("WORKSPACE_DIR", line)
    THEN <<"WORKSPACE_DIR", " ", "=", " ", "r", "\"">> \o workspace_dir.val
           \o <<"\"", NewLine>>
    ELSE IF TruthyStr(base_path) /\ ReMatch("BASE_PATH", line)
    THEN <<"BASE_PATH", " ", "=", " ", "r", "\"">> \o base_path.val
           \o <<"\"", NewLine>>
    ELSE IF TruthyInt(top_k) /\ ReMatch("TOP_K", line)
    THEN <<"TOP_K", " ", "=", " ", ToString(top_k.val), NewLine>>
    ELSE IF use_gpu.given /\ ReMatch("USE_GPU", line)
    THEN <<"USE_GPU", " ", "=", " ", BoolText(use_gpu.val), NewLine>>
    ELSE line

\* config.py on disk
NoConfig == [exists |-> FALSE, lines |-> <<>>]
\* ragbio/config.py as shipped, reduced to three of its assignments
ShippedConfig ==
    [exists |-> TRUE,
     lines |-> << <<" ", "WORKSPACE_DIR", " ", "=", " ", "\"", "/", "old", "\"",
                    NewLine>>,
                  <<"TOP_K", " ", "=", " ", "15", NewLine>>,
                  <<"USE_GPU", " ", "=", " ", "True", NewLine>> >>]
\* no call of update_config_file yet
NoUpdate == [error |-> "none", called |-> FALSE, workspace_dir |-> NoPath,
             top_k |-> NoTopK, use_gpu |-> NoUseGpu]

\* -------------------------------------------------------------- pipeline
\* config.TOP_K, the default of FAISSPMIDRetriever.k
TOP_K == 15

\* queries of run_pipeline, as token sequences
PipeQueries == { <<"a", " ", "-", "b">>, <<"A", "-", "b">>, <<"b">> }
WordTokens == {"a", "b", "A"}

\* str.lower() of one token
Lower(t) == IF t = "A" THEN "a" ELSE t

\* re.sub(r'\W+', '_', text): every run of non-word tokens becomes one "_"
RECURSIVE SubNonWord(_, _)
SubNonWord(text, inRun) ==
    IF text = <<>> THEN <<>>
    ELSE IF Head(text) \in WordTokens
         THEN <<Head(text)>> \o SubNonWord(Tail(text), FALSE)
         ELSE (IF inRun THEN <<>> ELSE <<"_">>) \o SubNonWord(Tail(text), TRUE)

\* query_var = re.sub(r'\W+', '_', query.lower())
QueryVar(query) == SubNonWord([n \in 1..Len(query) |-> Lower(query[n])], FALSE)

JsonNames == { QueryVar(q) : q \in PipeQueries }
NoJsonFile == [exists |-> FALSE, content |-> <<>>]
NoJsonFiles == [name \in JsonNames |-> NoJsonFile]

\* save_output that writes the JSON file whatever structured_results is
SaveJsonAlways(files, query, structured_results) ==
    [files EXCEPT ![QueryVar(query)] = [exists |-> TRUE,
                                        content |-> structured_results]]
\* save_output, second half: `if structured_results:` the per-query JSON file
\* is opened with "w" and structured_results dumped into it
SaveJson(files, query, structured_results) ==
    IF structured_results # <<>>
    THEN [files EXCEPT ![QueryVar(query)] = [exists |-> TRUE,
                                             content |-> structured_results]]
    ELSE files

\* save_output, first half: the record appended to rag_demo_results.txt
SaveSummary(txt, query, summary, top_pmids) ==
    Append(txt, [query |-> query, pmids |-> top_pmids, summary |-> summary])

\* what the LLM may answer to extract_structured_info for one abstract, after
\* parsing: no entry, one entry, two entries
Extractions == { <<>>, <<[drug |-> "D"], [drug |-> "E"]>> }

\* entry["pmid"] = pmid for the entries of one abstract
WithPmid(entries, pmid) ==
    [e \in 1..Len(entries) |-> [drug |-> entries[e].drug, pmid |-> pmid]]

\* structured_results.extend(...) over top_pmids, answers[j] being the
\* entries extracted for top_pmids[j]
RECURSIVE ExtendAll(_, _, _)
ExtendAll(top_pmids, answers, j) ==
    IF j > Len(top_pmids) THEN <<>>
    ELSE WithPmid(answers[j], top_pmids[j]) \o ExtendAll(top_pmids, answers, j + 1)

\* a knowledge-graph call made whatever was extracted
KgCallsUnguarded(structured, structured_results) == <<structured_results>>
\* the calls of add_structured_data_to_kg in one run: inside `if structured:`
\* and `if structured_results:`, one call with structured_results
KgCalls(structured, structured_results) ==
    IF structured /\ structured_results # <<>> THEN <<structured_results>>
    ELSE <<>>

\* the k the retriever inside the chain searches with: self.retriever is the
\* object whose k run_pipeline has just set
ChainKStale(old_k, top_k) == old_k
ChainK(old_k, top_k) == top_k

\* the chain's answer: a function of the question and of the context
ChainResult(query, context_ids) == [question |-> query, context |-> context_ids]

\* an assistant over the index and the map of a completed build
NoAssistant == [index |-> NoIndex, pmid_map |-> <<>>, k |-> 0]
Assistants ==
    { [index |-> FlatIndex(NpArray(OnePass(LoadAbstracts(d, [j \in 1..Len(d) |-> j]).abstracts,
                                           ZeroDim, {})), "cpu"),
       pmid_map |-> [j \in 1..Len(d) |-> j],
       k |-> TOP_K] : d \in PlainDirs \ {<<>>} }

NoRun == [called |-> FALSE, query |-> <<>>, top_k |-> 0, structured |-> FALSE,
          error |-> "none", context_ids |-> <<>>, top_pmids |-> <<>>,
          answers |-> <<>>, kg_calls |-> <<>>, returned |-> <<>>]

\* ------------------------------------------- the PubMed fetcher (data_loader)
\* fetch_pubmed_ids(term, retmax, retstart, retries=3, delay=5)
Retries == 3

\* the start index of the first batch (PUBMED_RETSTART, default 0)
RETSTART == 0

\* the batch size (PUBMED_RETMAX)
RETMAX == MaxBatch

\* PubMed ids, as the strings Entrez returns
PmidPool == { <<"11">>, <<"12">> }

\* what one esearch attempt does: it answers, or it raises
SearchOutcomes == {"ok", "HTTPError", "URLError", "RuntimeError", "ValueError"}

\* an except clause for HTTP errors only
CaughtHttpOnly == {"HTTPError"}

\* the exceptions fetch_pubmed_ids catches
Caught == {"HTTPError", "URLError", "RuntimeError"}

\* the id lists a search can return
IdLists == UNION { [1..n -> PmidPool] : n \in 0..MaxBatch }

\* the loop of fetch_pubmed_ids from attempt number `attempt` on: the number
\* of esearch calls made, the list returned and the exception that left it
RECURSIVE SearchAttempt(_, _, _, _)
SearchAttempt(outcomes, idlist, retries, attempt) ==
    IF attempt > retries
    THEN [attempts |-> retries, ids |-> <<>>, raised |-> "none"]
    ELSE IF outcomes[attempt] = "ok"
    THEN [attempts |-> attempt, ids |-> idlist, raised |-> "none"]
    ELSE IF outcomes[attempt] \in Caught
    THEN SearchAttempt(outcomes, idlist, retries, attempt + 1)
    ELSE [attempts |-> attempt, ids |-> <<>>, raised |-> outcomes[attempt]]

FetchPubmedIds(outcomes, idlist, retries) == SearchAttempt(outcomes, idlist, retries, 1)

NoSearch == [called |-> FALSE, outcomes |-> <<>>, idlist |-> <<>>,
             attempts |-> 0, ids |-> <<>>, raised |-> "none"]

\* save_to_json: os.path.join(folder, f"{filename}.json")
JsonName(filename) == filename \o <<".json">>

\* f"{pmid}_meta"
MetaName(pmid) == pmid \o <<"_meta">>

\* a resume that finds nothing processed
GetProcessedPmidsNone(folder) == {}

\* get_processed_pmids: the names ending in .json, with ".json" removed
GetProcessedPmids(folder) ==
    { SelectSeq(fname, LAMBDA t : t # ".json") :
        fname \in { f \in folder : Len(f) > 0 /\ f[Len(f)] = ".json" } }

\* --------------------------- two build processes on one checkpoint path
Procs == {"p1", "p2"}

\* the corpus both processes load
RaceTexts == << <<"a">>, <<"b">> >>

\* what a checkpoint file holds, in the pieces json.dump writes: the
\* opening of the document, one piece per vector, the closing; a hole is
\* what a write beyond the end of the file leaves before it
Piece(kind, vec) == [kind |-> kind, vec |-> vec]
Hole == Piece("hole", ZeroVector)

\* json.dump({"embeddings": embeddings}, f) as the pieces written in turn
Dump(embs) ==
    <<Piece("open", ZeroVector)>> \o [p \in 1..Len(embs) |-> Piece("vec", embs[p])]
    \o <<Piece("close", ZeroVector)>>

\* json.load accepts the content: an opening, vectors, a closing
ValidJson(cells) ==
    /\ Len(cells) >= 2
    /\ cells[1].kind = "open" /\ cells[Len(cells)].kind = "close"
    /\ \A p \in 2..(Len(cells) - 1) : cells[p].kind = "vec"

\* saved["embeddings"] of a content json.load accepts
Vectors(cells) == [p \in 1..(Len(cells) - 2) |-> cells[p + 1].vec]

\* a write that goes to the end of the file whatever the position
WriteAppend(cells, off, piece) == Append(cells, piece)

\* a write of one piece at the position of the writer's own file object:
\* the other writer's truncation does not move it
WriteAt(cells, off, piece) ==
    IF off < Len(cells) THEN [cells EXCEPT ![off + 1] = piece]
    ELSE cells \o [p \in 1..(off - Len(cells)) |-> Hole] \o <<piece>>

NoSharedFile == [exists |-> FALSE, cells |-> <<>>]

\* a build process before it starts: fails are the positions at which its
\* provider calls raise
IdleProc == [pc |-> "idle", embeddings |-> <<>>, start_idx |-> 0, off |-> 0,
             fails |-> {}, wrote |-> <<>>]

\* ----------------------------------------------------------------- state
VARIABLES
    assistant,    \* RAGAssistant: self.index, self.pmid_map, self.retriever.k
    run,          \* the last call of run_pipeline: arguments, calls made, result
    resultsTxt,   \* output_dir/rag_demo_results.txt: the records appended
    jsonFiles,    \* output_dir/{query_var}_output.json, by query_var
    configFile,   \* config.py (update_config.CONFIG_FILE)
    updated,      \* the last call of update_config_file: arguments and error
    dir,          \* the corpus directory (config.ABSTRACT_FOLDER)
    providerDim,  \* output dimensionality of the configured embedding model
    failPos,      \* positions at which the provider call raises
    ckptFile,     \* embedding_checkpoint.json
    indexFile,    \* config.INDEX_FILE
    idMapFile,    \* config.ID_MAP_FILE
    pc,           \* where the build process is
    abstracts,    \* main: abstracts / generate_embeddings: texts
    pmids,        \* main: pmids
    embeddings,   \* generate_embeddings: embeddings
    start_idx,    \* generate_embeddings: start_idx
    i,            \* generate_embeddings: loop variable
    arr,          \* main: embeddings (the array generate_embeddings returned)
    index,        \* main: index
    outcome,      \* how the last build run ended
    calls,        \* history: positions sent to the provider in this run
    writeLog,     \* history: number of vectors in each completed write of this run
    loaded,       \* history: the checkpoint this run resumed from
    runPure,      \* history: this run's vectors all come from passes over its own texts
    ckptCorpus,   \* history: texts of the run that wrote ckptFile
    ckptPure,     \* history: runPure of the run that wrote ckptFile
    retrieved,    \* result of the last retrieval
    abstractFolder,  \* config.ABSTRACT_FOLDER: the names of its files
    metadataFolder,  \* config.METADATA_FOLDER: the names of its files
    processed,    \* fetcher main: processed
    fetchPc,      \* where the fetcher process is
    total,        \* fetcher main: total
    retstart,     \* fetcher main: retstart
    batchPmids,   \* fetcher main: pmids (the current batch)
    pos,          \* fetcher main: position of pmid in the batch
    fetchLog,     \* efetch calls and lines printed in the current batch
    search,       \* the last call of fetch_pubmed_ids
    fetchRuns,    \* number of fetcher runs started
    sharedCkpt,   \* the checkpoint file two concurrent build processes share
    proc,         \* the two build processes: position, embeddings, file offset
    overlap       \* history: a process used the file while the other had it open

buildVars == <<pc, abstracts, pmids, embeddings, start_idx, i, arr, index>>
histVars == <<calls, writeLog, loaded, runPure>>
pipeVars == <<assistant, run, resultsTxt, jsonFiles>>
fetchVars == <<abstractFolder, metadataFolder, processed, fetchPc, total, retstart,
               batchPmids, pos, fetchLog, search, fetchRuns>>
raceVars == <<sharedCkpt, proc, overlap>>
restVars == <<fetchVars, raceVars>>
sideVars == <<pipeVars, restVars>>
configVars == <<configFile, updated>>
buildAll == <<dir, providerDim, failPos, ckptFile, indexFile, idMapFile, buildVars,
              outcome, histVars, ckptCorpus, ckptPure, retrieved>>
envVars == <<dir, providerDim, failPos, configFile, updated, sideVars>>
vars == <<assistant, run, resultsTxt, jsonFiles, configFile, updated, dir, providerDim, failPos, ckptFile, indexFile, idMapFile, pc,
          abstracts, pmids, embeddings, start_idx, i, arr, index, outcome,
          calls, writeLog, loaded, runPure, ckptCorpus, ckptPure, retrieved,
          restVars>>

NoArray == [n |-> 0, d |-> 0, rows |-> <<>>]
NoFile == [exists |-> FALSE, content |-> <<>>]
NoIndexFile == [exists |-> FALSE, content |-> NoIndex]
NoRetrieval == [variant |-> "none", k |-> 0, ntotal |-> 0, error |-> "none",
                index |-> NoIndex, pmid_map |-> <<>>,
                labels |-> <<>>, distances |-> <<>>, ids |-> <<>>,
                scores |-> <<>>]

\* the process's memory when no build is running
Idle ==
    /\ pc = "idle"
    /\ abstracts = <<>> /\ pmids = <<>> /\ embeddings = <<>>
    /\ start_idx = 0 /\ i = 0 /\ arr = NoArray /\ index = NoIndex

\* no assistant has been constructed
PipelineIdle ==
    /\ assistant = NoAssistant /\ run = NoRun
    /\ resultsTxt = <<>> /\ jsonFiles = NoJsonFiles

\* no fetcher run yet: empty folders
FetchIdle ==
    /\ abstractFolder = {} /\ metadataFolder = {} /\ processed = {}
    /\ fetchPc = "idle" /\ total = 0 /\ retstart = RETSTART
    /\ batchPmids = <<>> /\ pos = 1 /\ fetchLog = <<>>
    /\ search = NoSearch /\ fetchRuns = 0

\* no concurrent build
RaceIdle == sharedCkpt = NoSharedFile /\ proc = [p \in Procs |-> IdleProc] /\ overlap = FALSE

RestIdle == FetchIdle /\ RaceIdle

SideIdle == PipelineIdle /\ RestIdle

\* config.py as shipped, never updated
ConfigShipped == configFile = ShippedConfig /\ updated = NoUpdate

InitCommon ==
    /\ providerDim \in Dims
    /\ ckptFile = AbsentFile
    /\ indexFile = NoIndexFile
    /\ idMapFile = NoFile
    /\ Idle
    /\ outcome = "none"
    /\ calls = <<>> /\ writeLog = <<>> /\ loaded = <<>> /\ runPure = TRUE
    /\ ckptCorpus = <<>> /\ ckptPure = TRUE
    /\ retrieved = NoRetrieval

Init ==
    /\ dir \in SmallDirs
    /\ ConfigShipped /\ SideIdle
    /\ failPos \in SUBSET SmallFail
    /\ InitCommon

\* the long corpus, with a model whose vectors have the placeholder's length
InitLong ==
    /\ dir = LongDir(LongLen)
    /\ ConfigShipped /\ SideIdle
    /\ failPos \in SUBSET LongFail
    /\ InitCommon
    /\ providerDim = ZeroDim

\* the process ends (return, uncaught exception or kill): its memory is gone
EndRun(how) ==
    /\ pc' = "idle"
    /\ abstracts' = <<>> /\ pmids' = <<>> /\ embeddings' = <<>>
    /\ start_idx' = 0 /\ i' = 0 /\ arr' = NoArray /\ index' = NoIndex
    /\ calls' = <<>> /\ writeLog' = <<>> /\ loaded' = <<>> /\ runPure' = TRUE
    /\ outcome' = how

\* a main that goes on without the test
NotAbstractsSkipped(texts) == FALSE
\* main: `if not abstracts:`
NotAbstracts(texts) == texts = <<>>

\* main: load_abstracts and the empty-corpus test
MainLoad ==
    /\ pc = "idle"
    /\ \E order \in Listings(dir) :
         LET l == LoadAbstracts(dir, order) IN
         IF NotAbstracts(l.abstracts)
         THEN EndRun("empty")
         ELSE /\ pc' = "generate"
              /\ abstracts' = l.abstracts /\ pmids' = l.pmids
              /\ outcome' = "running"
              /\ UNCHANGED <<embeddings, start_idx, i, arr, index, histVars>>
    /\ retrieved' = NoRetrieval
    /\ UNCHANGED <<envVars, ckptFile, indexFile, idMapFile, ckptCorpus, ckptPure>>

\* generate_embeddings: resume from the checkpoint if it exists
GenStart ==
    /\ pc = "generate"
    /\ IF CheckpointExists(ckptFile)
       THEN IF CheckpointLoads(ckptFile)
            THEN /\ start_idx' = ResumeIndex(ckptFile)
                 /\ embeddings' = ResumeEmbeddings(ckptFile)
                 /\ i' = ResumeIndex(ckptFile)
                 /\ loaded' = ckptFile.embeddings
                 /\ runPure' = (ckptPure /\ ckptCorpus = abstracts)
                 /\ pc' = "loop"
                 /\ UNCHANGED <<abstracts, pmids, arr, index, outcome, calls,
                                writeLog>>
            ELSE EndRun("json_error")
       ELSE /\ start_idx' = 0 /\ embeddings' = <<>> /\ i' = 0
            /\ pc' = "loop"
            /\ UNCHANGED <<abstracts, pmids, arr, index, outcome, histVars>>
    /\ UNCHANGED <<envVars, ckptFile, indexFile, idMapFile, ckptCorpus, ckptPure,
                   retrieved>>

\* one iteration of the loop, up to the checkpoint test
LoopStep ==
    /\ pc = "loop" /\ i < Len(abstracts)
    /\ embeddings' = Append(embeddings,
                            EmbedOrZero(abstracts[i + 1], i, providerDim, failPos))
    /\ calls' = Append(calls, i)
    /\ IF CheckpointDue(i)
       THEN pc' = "ckpt_open" /\ i' = i
       ELSE pc' = "loop" /\ i' = i + 1
    /\ UNCHANGED <<envVars, ckptFile, indexFile, idMapFile, abstracts, pmids,
                   start_idx, arr, index, outcome, writeLog, loaded, runPure,
                   ckptCorpus, ckptPure, retrieved>>

\* the loop is over: go to the final save
LoopExit ==
    /\ pc = "loop" /\ i >= Len(abstracts)
    /\ pc' = "final_open"
    /\ UNCHANGED <<envVars, ckptFile, indexFile, idMapFile, abstracts, pmids,
                   embeddings, start_idx, i, arr, index, outcome, histVars,
                   ckptCorpus, ckptPure, retrieved>>

\* open(checkpoint_path, "w"): the file is truncated
WriteOpen ==
    /\ pc \in {"ckpt_open", "final_open"}
    /\ ckptFile' = PartialFile
    /\ pc' = IF pc = "ckpt_open" THEN "ckpt_dump" ELSE "final_dump"
    /\ UNCHANGED <<envVars, indexFile, idMapFile, abstracts, pmids, embeddings,
                   start_idx, i, arr, index, outcome, histVars, ckptCorpus,
                   ckptPure, retrieved>>

\* json.dump({"embeddings": embeddings}, f) and the close of the file
WriteDump ==
    /\ pc \in {"ckpt_dump", "final_dump"}
    /\ ckptFile' = CheckpointContent(embeddings)
    /\ writeLog' = Append(writeLog, Len(embeddings))
    /\ ckptCorpus' = abstracts
    /\ ckptPure' = runPure
    /\ IF pc = "ckpt_dump"
       THEN pc' = "loop" /\ i' = i + 1
       ELSE pc' = "convert" /\ i' = i
    /\ UNCHANGED <<envVars, indexFile, idMapFile, abstracts, pmids, embeddings,
                   start_idx, arr, index, outcome, calls, loaded, runPure,
                   retrieved>>

\* return np.array(embeddings, dtype="float32")
Convert ==
    /\ pc = "convert"
    /\ IF Ragged(embeddings)
       THEN EndRun("value_error")
       ELSE /\ arr' = NpArray(embeddings)
            /\ pc' = "build"
            /\ UNCHANGED <<abstracts, pmids, embeddings, start_idx, i, index,
                           outcome, histVars>>
    /\ UNCHANGED <<envVars, ckptFile, indexFile, idMapFile, ckptCorpus, ckptPure,
                   retrieved>>

\* a GPU attempt whose failure leaves no index
BuildFaissIndexNoFallback(a, use_gpu, gpu_ok) ==
    IF use_gpu /\ ~gpu_ok THEN NoIndex ELSE FlatIndex(a, IF use_gpu THEN "gpu" ELSE "cpu")
\* build_faiss_index: with config.USE_GPU the GPU index is tried and any
\* exception of the attempt falls back to the CPU index; index.add follows
BuildFaissIndex(a, use_gpu, gpu_ok) ==
    FlatIndex(a, IF use_gpu /\ gpu_ok THEN "gpu" ELSE "cpu")

\* main: index = build_faiss_index(embeddings), for either value of
\* config.USE_GPU and a GPU attempt that succeeds or raises
BuildIndex ==
    /\ pc = "build"
    /\ \E use_gpu \in BOOLEAN, gpu_ok \in BOOLEAN :
         index' = BuildFaissIndex(arr, use_gpu, gpu_ok)
    /\ pc' = "save_index"
    /\ UNCHANGED <<envVars, ckptFile, indexFile, idMapFile, abstracts, pmids,
                   embeddings, start_idx, i, arr, outcome, histVars, ckptCorpus,
                   ckptPure, retrieved>>

\* save_index: faiss.write_index(index, INDEX_FILE); write_index cannot
\* serialize a GPU index and raises
SaveIndexFile ==
    /\ pc = "save_index"
    /\ IF index.backend = "gpu"
       THEN /\ EndRun("write_error")
            /\ UNCHANGED indexFile
       ELSE /\ indexFile' = [exists |-> TRUE, content |-> index]
            /\ pc' = "save_map"
            /\ UNCHANGED <<abstracts, pmids, embeddings, start_idx, i, arr, index,
                           outcome, histVars>>
    /\ UNCHANGED <<envVars, ckptFile, idMapFile, ckptCorpus, ckptPure, retrieved>>

\* save_index: json.dump(pmids, f, indent=2); main returns
SaveIdMap ==
    /\ pc = "save_map"
    /\ idMapFile' = [exists |-> TRUE, content |-> pmids]
    /\ EndRun("done")
    /\ retrieved' = NoRetrieval
    /\ UNCHANGED <<envVars, ckptFile, indexFile, ckptCorpus, ckptPure>>

\* the build process is stopped at any point
Crash ==
    /\ pc # "idle"
    /\ EndRun("killed")
    /\ UNCHANGED <<envVars, ckptFile, indexFile, idMapFile, ckptCorpus, ckptPure,
                   retrieved>>

\* one file is added, removed or rewritten
OneFileEdit(d, e) ==
    \/ Len(e) = Len(d) + 1 /\ SubSeq(e, 1, Len(d)) = d
    \/ Len(e) = Len(d) - 1 /\ SubSeq(d, 1, Len(e)) = e
    \/ Len(e) = Len(d) /\ Cardinality({n \in 1..Len(d) : d[n] # e[n]}) = 1

\* the corpus directory changes between two build runs: one eligible record
\* is added, removed or rewritten
ChangeCorpus ==
    /\ pc = "idle"
    /\ \E d \in PlainDirs : OneFileEdit(dir, d) /\ dir' = d
    /\ retrieved' = NoRetrieval
    /\ UNCHANGED <<providerDim, failPos, configFile, updated, ckptFile, indexFile,
                   idMapFile, buildVars, outcome, histVars, ckptCorpus, ckptPure,
                   sideVars>>

\* a load that tests the index file only
LoadFaissIndexMapUntested(ixf, mapf) ==
    IF ~ixf.exists
    THEN [error |-> "not_found", index |-> NoIndex, pmid_map |-> <<>>]
    ELSE [error |-> "none", index |-> ixf.content, pmid_map |-> mapf.content]
\* load_faiss_index: FileNotFoundError unless both files exist, else
\* faiss.read_index and json.load
LoadFaissIndex(ixf, mapf) ==
    IF ~ixf.exists
    THEN [error |-> "not_found", index |-> NoIndex, pmid_map |-> <<>>]
    ELSE IF ~mapf.exists
         THEN [error |-> "not_found", index |-> NoIndex, pmid_map |-> <<>>]
         ELSE [error |-> "none", index |-> ixf.content, pmid_map |-> mapf.content]

\* a query: load_faiss_index, then FAISSPMIDRetriever._get_relevant_documents
\* (variant "ragbio", k = self.k) or RAGAssistant.retrieve_top_pmids
\* (variant "src", k = top_k). A query reads the two files and changes
\* nothing but `retrieved`, so every result is reached by a query that
\* follows a build step; a query after another query is not expanded.
Retrieve ==
    /\ pc \in {"idle", "save_map"}
    /\ retrieved = NoRetrieval
    /\ \E variant \in {"ragbio", "src"}, k \in 1..MaxK, text \in Queries :
         LET l == LoadFaissIndex(indexFile, idMapFile)
             asked == [NoRetrieval EXCEPT !.variant = variant, !.k = k,
                                          !.index = l.index,
                                          !.pmid_map = l.pmid_map]
         IN
         retrieved' =
           IF l.error # "none"
           THEN [asked EXCEPT !.error = l.error]
           ELSE LET ix == l.index
                    q == NormalizeL2(ProviderVector(text, providerDim))
                IN  IF q.dim # ix.d
                    THEN [asked EXCEPT !.ntotal = Len(ix.rows),
                                       !.error = "dim_error"]
                    ELSE LET slots == Search(ix, q, k)
                             m == MapSlots(l.pmid_map, slots)
                         IN  [asked EXCEPT
                                !.ntotal = Len(ix.rows), !.error = m.error,
                                !.labels = [s \in 1..Len(slots) |-> slots[s].label],
                                !.distances =
                                    [s \in 1..Len(slots) |-> slots[s].score],
                                !.ids = m.ids, !.scores = m.scores]
    /\ UNCHANGED <<envVars, ckptFile, indexFile, idMapFile, buildVars, outcome,
                   histVars, ckptCorpus, ckptPure>>

Build ==
    \/ MainLoad \/ GenStart \/ LoopStep \/ LoopExit \/ WriteOpen \/ WriteDump
    \/ Convert \/ BuildIndex \/ SaveIndexFile \/ SaveIdMap

NextLong == Build \/ Crash

SpecLong == InitLong /\ [][NextLong]_vars

\* the build over a small directory, stopped and restarted at will
Next == Build \/ Crash

Spec == Init /\ [][Next]_vars

\* rebuilds over a corpus that changes between runs
InitRebuild ==
    /\ dir \in PlainDirs
    /\ ConfigShipped /\ SideIdle
    /\ failPos \in SUBSET {0}
    /\ InitCommon
    /\ providerDim = ZeroDim

NextRebuild == Build \/ Crash \/ ChangeCorpus

SpecRebuild == InitRebuild /\ [][NextRebuild]_vars

\* builds followed by queries
InitQuery ==
    /\ dir \in PlainDirs
    /\ ConfigShipped /\ SideIdle
    /\ failPos \in SUBSET SmallFail
    /\ InitCommon

NextQuery == Build \/ Crash \/ Retrieve

SpecQuery == InitQuery /\ [][NextQuery]_vars

\* queries against the files of builds over a corpus that changes
InitServe ==
    /\ dir \in PlainDirs
    /\ ConfigShipped /\ SideIdle
    /\ failPos = {}
    /\ InitCommon
    /\ providerDim = ZeroDim

NextServe == Build \/ Crash \/ ChangeCorpus \/ Retrieve

SpecServe == InitServe /\ [][NextServe]_vars

\* a call that goes on without the test
ConfigExistsUntested(file) == TRUE
\* os.path.exists(CONFIG_FILE)
ConfigExists(file) == file.exists

\* update_config_file(workspace_dir, top_k, use_gpu)
UpdateConfigFile ==
    /\ \E workspace_dir \in WorkspaceArgs, top_k \in TopKArgs,
          use_gpu \in UseGpuArgs :
         LET call == [NoUpdate EXCEPT !.called = TRUE,
                                      !.workspace_dir = workspace_dir,
                                      !.top_k = top_k, !.use_gpu = use_gpu]
         IN
         IF ~ConfigExists(configFile)
         THEN /\ updated' = [call EXCEPT !.error = "not_found"]
              /\ UNCHANGED configFile
         ELSE /\ updated' = call
              /\ configFile' =
                   [exists |-> TRUE,
                    lines |-> [n \in 1..Len(configFile.lines) |->
                                 UpdatedLine(configFile.lines[n], workspace_dir,
                                             top_k, use_gpu)]]
    /\ UNCHANGED <<buildAll, sideVars>>

\* calls of update_config_file on a config.py
InitConfig ==
    /\ dir = <<>>
    /\ failPos = {}
    /\ InitCommon
    /\ providerDim = ZeroDim
    /\ SideIdle
    /\ configFile \in {NoConfig} \cup {[exists |-> TRUE, lines |-> f] : f \in ConfigFiles}
    /\ updated = NoUpdate

NextConfig == UpdateConfigFile

SpecConfig == InitConfig /\ [][NextConfig]_vars

\* run_pipeline(query, top_k, structured) on the assistant: both retrievals,
\* the structured extraction, the knowledge-graph call and save_output
RunPipeline ==
    /\ Len(resultsTxt) < MaxRuns
    /\ \E query \in PipeQueries, top_k \in 1..MaxTopK, structured \in BOOLEAN :
         \E q \in {NormalizeL2(ProviderVector(query, assistant.index.d))} :
         \E inChain \in {MapSlots(assistant.pmid_map,
                                  Search(assistant.index, q, ChainK(assistant.k, top_k)))},
            again \in {MapSlots(assistant.pmid_map, Search(assistant.index, q, top_k))} :
         LET call == [NoRun EXCEPT !.called = TRUE, !.query = query,
                                   !.top_k = top_k, !.structured = structured]
         IN
         /\ assistant' = [assistant EXCEPT !.k = top_k]
         /\ IF inChain.error # "none" \/ again.error # "none"
            THEN /\ run' = [call EXCEPT !.error = "index_error"]
                 /\ UNCHANGED <<resultsTxt, jsonFiles>>
            ELSE \E answers \in [1..Len(again.ids) -> Extractions] :
                   LET summary == ChainResult(query, inChain.ids)
                       structured_results ==
                           IF structured THEN ExtendAll(again.ids, answers, 1)
                           ELSE <<>>
                   IN
                   /\ run' = [call EXCEPT
                                !.context_ids = inChain.ids,
                                !.top_pmids = again.ids,
                                !.answers = IF structured THEN answers ELSE <<>>,
                                !.kg_calls = KgCalls(structured, structured_results),
                                !.returned = <<[summary |-> summary,
                                                top_pmids |-> again.ids,
                                                structured_results |->
                                                    structured_results]>>]
                   /\ resultsTxt' = SaveSummary(resultsTxt, query, summary, again.ids)
                   /\ jsonFiles' = SaveJson(jsonFiles, query, structured_results)
    /\ UNCHANGED <<buildAll, configVars, restVars>>

\* runs of the pipeline on an assistant constructed over a built index
InitPipeline ==
    /\ dir = <<>>
    /\ failPos = {}
    /\ InitCommon
    /\ providerDim = ZeroDim
    /\ ConfigShipped
    /\ assistant \in Assistants
    /\ run = NoRun /\ resultsTxt = <<>> /\ jsonFiles = NoJsonFiles
    /\ RestIdle

NextPipeline == RunPipeline

SpecPipeline == InitPipeline /\ [][NextPipeline]_vars

\* one call of fetch_pubmed_ids, with the outcome of each esearch attempt
\* and the id list a successful attempt returns
SearchCall ==
    /\ search = NoSearch
    /\ \E retries \in 0..Retries, idlist \in IdLists :
         \E outcomes \in [1..retries -> SearchOutcomes] :
           LET r == FetchPubmedIds(outcomes, idlist, retries)
           IN search' = [called |-> TRUE, outcomes |-> outcomes, idlist |-> idlist,
                         attempts |-> r.attempts, ids |-> r.ids, raised |-> r.raised]
    /\ UNCHANGED <<abstractFolder, metadataFolder, processed, fetchPc, total, retstart,
                   batchPmids, pos, fetchLog, fetchRuns>>
    /\ UNCHANGED <<buildAll, configVars, pipeVars, raceVars>>

InitSearch ==
    /\ dir = <<>>
    /\ failPos = {}
    /\ InitCommon
    /\ providerDim = ZeroDim
    /\ ConfigShipped /\ SideIdle

NextSearch == SearchCall

SpecSearch == InitSearch /\ [][NextSearch]_vars

\* a line the fetcher prints for a PMID, or the efetch call it makes for it
Event(tag, pmid) == [tag |-> tag, pmid |-> pmid]

\* main up to the while loop: get_total_records, get_processed_pmids
FetchStart ==
    /\ fetchPc = "idle"
    /\ fetchRuns < MaxFetchRuns
    /\ fetchRuns' = fetchRuns + 1
    /\ \E answers \in BOOLEAN, t \in 0..MaxTotal :
         IF answers
         THEN /\ total' = t
              /\ processed' = GetProcessedPmids(abstractFolder)
              /\ retstart' = RETSTART
              /\ batchPmids' = <<>> /\ pos' = 1 /\ fetchLog' = <<>>
              /\ fetchPc' = "loop"
         ELSE UNCHANGED <<total, processed, retstart, batchPmids, pos, fetchLog, fetchPc>>
    /\ UNCHANGED <<abstractFolder, metadataFolder, search>>
    /\ UNCHANGED <<buildAll, configVars, pipeVars, raceVars>>

\* the head of the while loop: the loop ends, or the next batch is fetched
FetchBatch ==
    /\ fetchPc = "loop"
    /\ IF retstart >= total
       THEN /\ fetchPc' = "idle"
            /\ UNCHANGED <<batchPmids, pos, fetchLog>>
       ELSE \E idlist \in IdLists, outcomes \in [1..Retries -> SearchOutcomes] :
              LET r == FetchPubmedIds(outcomes, idlist, Retries)
              IN IF r.raised # "none" \/ r.ids = <<>>
                 THEN /\ fetchPc' = "idle"
                      /\ UNCHANGED <<batchPmids, pos, fetchLog>>
                 ELSE /\ batchPmids' = r.ids /\ pos' = 1 /\ fetchLog' = <<>>
                      /\ fetchPc' = "pmid"
    /\ UNCHANGED <<abstractFolder, metadataFolder, processed, total, retstart, search,
                   fetchRuns>>
    /\ UNCHANGED <<buildAll, configVars, pipeVars, raceVars>>

\* the head of the for loop: the batch is finished, the PMID is skipped, or
\* fetch_abstract_and_metadata is called for it and answers or raises
NextPmid ==
    /\ fetchPc = "pmid"
    /\ IF pos > Len(batchPmids)
       THEN /\ retstart' = retstart + RETMAX
            /\ fetchPc' = "loop"
            /\ UNCHANGED <<pos, fetchLog>>
       ELSE LET pmid == batchPmids[pos]
            IN IF pmid \in processed
               THEN /\ fetchLog' = Append(fetchLog, Event("SKIP", pmid))
                    /\ pos' = pos + 1
                    /\ UNCHANGED <<retstart, fetchPc>>
               ELSE \E answers \in BOOLEAN :
                      IF answers
                      THEN /\ fetchLog' = Append(fetchLog, Event("efetch", pmid))
                           /\ fetchPc' = "save_abstract"
                           /\ UNCHANGED <<retstart, pos>>
                      ELSE /\ fetchLog' = fetchLog \o <<Event("efetch", pmid),
                                                        Event("ERROR", pmid)>>
                           /\ pos' = pos + 1
                           /\ UNCHANGED <<retstart, fetchPc>>
    /\ UNCHANGED <<abstractFolder, metadataFolder, processed, total, batchPmids, search,
                   fetchRuns>>
    /\ UNCHANGED <<buildAll, configVars, pipeVars, raceVars>>

\* what a call of save_to_json does: it writes the file, open raises, or
\* json.dump raises after open has created the file
SaveHow == {"written", "open_raises", "dump_raises"}

\* save_to_json after the call: the folder
Saved(folder, filename, how) ==
    IF how = "open_raises" THEN folder ELSE folder \cup {JsonName(filename)}

\* the first save_to_json of the try block: the abstract file
SaveAbstract ==
    /\ fetchPc = "save_abstract"
    /\ \E how \in SaveHow :
         LET pmid == batchPmids[pos]
         IN
         /\ abstractFolder' = Saved(abstractFolder, pmid, how)
         /\ IF how = "written"
            THEN /\ fetchPc' = "save_metadata"
                 /\ UNCHANGED <<pos, fetchLog>>
            ELSE /\ fetchLog' = Append(fetchLog, Event("ERROR", pmid))
                 /\ pos' = pos + 1
                 /\ fetchPc' = "pmid"
    /\ UNCHANGED <<metadataFolder, processed, total, retstart, batchPmids, search,
                   fetchRuns>>
    /\ UNCHANGED <<buildAll, configVars, pipeVars, raceVars>>

\* a try block that counts the PMID as processed whatever the save did
ProcessedAfterAlways(old, pmid, how) == old \cup {pmid}

\* processed after the rest of the try block: processed.add(pmid) is reached
\* when the metadata save has not raised (try_download_pdf raises nothing)
ProcessedAfter(old, pmid, how) == IF how = "written" THEN old \cup {pmid} ELSE old

\* the rest of the try block: the metadata file, try_download_pdf,
\* processed.add
SaveMetadata ==
    /\ fetchPc = "save_metadata"
    /\ \E how \in SaveHow :
         LET pmid == batchPmids[pos]
         IN
         /\ metadataFolder' = Saved(metadataFolder, MetaName(pmid), how)
         /\ processed' = ProcessedAfter(processed, pmid, how)
         /\ fetchLog' = Append(fetchLog,
                               Event(IF how = "written" THEN "OK" ELSE "ERROR", pmid))
         /\ pos' = pos + 1
         /\ fetchPc' = "pmid"
    /\ UNCHANGED <<abstractFolder, total, retstart, batchPmids, search, fetchRuns>>
    /\ UNCHANGED <<buildAll, configVars, pipeVars, raceVars>>

\* the fetcher process stops (killed, power loss, uncaught signal)
FetchStop ==
    /\ fetchPc # "idle"
    /\ fetchPc' = "idle"
    /\ UNCHANGED <<abstractFolder, metadataFolder, processed, total, retstart,
                   batchPmids, pos, fetchLog, search, fetchRuns>>
    /\ UNCHANGED <<buildAll, configVars, pipeVars, raceVars>>

\* runs of the fetcher, one after the other, over the same folders
InitFetch ==
    /\ dir = <<>>
    /\ failPos = {}
    /\ InitCommon
    /\ providerDim = ZeroDim
    /\ ConfigShipped /\ SideIdle

NextFetch ==
    \/ FetchStart
    \/ FetchBatch
    \/ NextPmid
    \/ SaveAbstract
    \/ SaveMetadata
    \/ FetchStop

SpecFetch == InitFetch /\ [][NextFetch]_vars

\* the other process has the checkpoint open for writing
OtherWrites(p) == \E o \in Procs \ {p} : proc[o].pc = "dump"

\* generate_embeddings of process p up to the loop: no checkpoint, a
\* checkpoint json.load accepts, or one it rejects
RaceStart(p) ==
    /\ proc[p].pc = "idle"
    /\ proc' = [proc EXCEPT ![p] =
                  IF ~sharedCkpt.exists
                  THEN [@ EXCEPT !.pc = "loop"]
                  ELSE IF ValidJson(sharedCkpt.cells)
                  THEN [@ EXCEPT !.pc = "loop",
                                 !.embeddings = Vectors(sharedCkpt.cells),
                                 !.start_idx = Len(Vectors(sharedCkpt.cells))]
                  ELSE [@ EXCEPT !.pc = "json_error"]]
    /\ overlap' = (overlap \/ (sharedCkpt.exists /\ OtherWrites(p)))
    /\ UNCHANGED sharedCkpt
    /\ UNCHANGED <<buildAll, configVars, pipeVars, fetchVars>>

\* the loop of process p over the positions left; the corpus is shorter
\* than the checkpoint interval, so the loop writes nothing
RaceLoop(p) ==
    /\ proc[p].pc = "loop"
    /\ \A at \in proc[p].start_idx..(Len(RaceTexts) - 1) : ~CheckpointDue(at)
    /\ proc' = [proc EXCEPT ![p] =
                  [@ EXCEPT !.pc = "final_open",
                            !.embeddings =
                               @ \o [j \in 1..(IF Len(RaceTexts) > proc[p].start_idx
                                              THEN Len(RaceTexts) - proc[p].start_idx
                                              ELSE 0) |->
                                      EmbedOrZero(RaceTexts[proc[p].start_idx + j],
                                                  proc[p].start_idx + j - 1,
                                                  ZeroDim, proc[p].fails)]]]
    /\ UNCHANGED <<sharedCkpt, overlap>>
    /\ UNCHANGED <<buildAll, configVars, pipeVars, fetchVars>>

\* the final save of process p: open(checkpoint_path, "w")
RaceOpen(p) ==
    /\ proc[p].pc = "final_open"
    /\ sharedCkpt' = [exists |-> TRUE, cells |-> <<>>]
    /\ proc' = [proc EXCEPT ![p] = [@ EXCEPT !.pc = "dump", !.off = 0]]
    /\ overlap' = (overlap \/ OtherWrites(p))
    /\ UNCHANGED <<buildAll, configVars, pipeVars, fetchVars>>

\* json.dump of process p: the next piece reaches the file
RaceWrite(p) ==
    /\ proc[p].pc = "dump"
    /\ proc[p].off < Len(Dump(proc[p].embeddings))
    /\ sharedCkpt' = [exists |-> TRUE,
                      cells |-> WriteAt(sharedCkpt.cells, proc[p].off,
                                        Dump(proc[p].embeddings)[proc[p].off + 1])]
    /\ proc' = [proc EXCEPT ![p] = [@ EXCEPT !.off = @ + 1]]
    /\ overlap' = (overlap \/ OtherWrites(p))
    /\ UNCHANGED <<buildAll, configVars, pipeVars, fetchVars>>

\* the end of the with block of process p: the file is closed
RaceClose(p) ==
    /\ proc[p].pc = "dump"
    /\ proc[p].off = Len(Dump(proc[p].embeddings))
    /\ proc' = [proc EXCEPT ![p] = [@ EXCEPT !.pc = "done", !.wrote = proc[p].embeddings]]
    /\ UNCHANGED <<sharedCkpt, overlap>>
    /\ UNCHANGED <<buildAll, configVars, pipeVars, fetchVars>>

\* two build processes started on the same checkpoint path, each with its
\* own provider failures
InitRace ==
    /\ dir = <<>>
    /\ failPos = {}
    /\ InitCommon
    /\ providerDim = ZeroDim
    /\ ConfigShipped /\ PipelineIdle /\ FetchIdle
    /\ sharedCkpt = NoSharedFile /\ overlap = FALSE
    /\ \E f \in [Procs -> SUBSET SmallFail] :
         proc = [p \in Procs |-> [IdleProc EXCEPT !.fails = f[p]]]

NextRace ==
    \E p \in Procs :
      \/ RaceStart(p)
      \/ RaceLoop(p)
      \/ RaceOpen(p)
      \/ RaceWrite(p)
      \/ RaceClose(p)

SpecRace == InitRace /\ [][NextRace]_vars

\* the positions for which this run has printed
\* "[WARN] Embedding failed for index {i}"
Warned == SelectSeq(calls, LAMBDA p : p \in failPos)

\* the lines a build run has printed so far, as (tag, number) pairs:
\* [RESUME] start_idx, [WARN] i, [CHECKPOINT] i + 1, and
\* "[INFO] FAISS index built with {index.ntotal} vectors"
Printed ==
    (IF start_idx > 0 THEN {[tag |-> "RESUME", n |-> start_idx]} ELSE {})
    \cup {[tag |-> "WARN", n |-> Warned[j]] : j \in 1..Len(Warned)}
    \cup {[tag |-> "CHECKPOINT", n |-> writeLog[j]] :
            j \in {w \in 1..Len(writeLog) : writeLog[w] % CheckpointEvery = 0}}
    \cup (IF pc \in {"save_index", "save_map"}
          THEN {[tag |-> "INFO", n |-> Len(index.rows)]} ELSE {})

\* ---------------------------------------------------------------- claims
Min(a, b) == IF a <= b THEN a ELSE b

\* C1: for k > N retrieval returns exactly N results without error, for every
\* k at most min(k, N) results, and no id for a slot the index did not fill.
C1_RetrievalBoundedByIndex ==
    (retrieved.variant # "none" /\ retrieved.error \notin {"not_found", "dim_error"})
    => /\ retrieved.error = "none"
       /\ Len(retrieved.ids) <= Min(retrieved.k, retrieved.ntotal)
       /\ (retrieved.k > retrieved.ntotal
             => Len(retrieved.ids) = retrieved.ntotal)
       /\ \A s \in 1..Len(retrieved.ids) : retrieved.labels[s] >= 0

\* C2: once load_abstracts and generate_embeddings have run in main, the
\* texts, the ids and the rows of the returned array are equally many.
C2_LengthsAligned ==
    pc = "build" => Len(abstracts) = Len(pmids) /\ Len(pmids) = arr.n

\* the normalized rows a document's text can have in the index
RowsOf(text) ==
    { NormalizeL2(ProviderVector(text, providerDim)), NormalizeL2(ZeroVector) }

\* C3: when a build run completes, the persisted identifier map is as long as
\* the persisted index, and row r of the index is the vector of the document
\* whose id is at position r of the map.
C3_PersistedJoinKey ==
    [][ (pc = "save_map" /\ outcome' = "done")
        => /\ Len(idMapFile'.content) = Len(indexFile'.content.rows)
           /\ \A r \in 1..Len(idMapFile'.content) :
                /\ r <= Len(indexFile'.content.rows)
                /\ idMapFile'.content[r] = pmids[r]
                /\ indexFile'.content.rows[r] \in RowsOf(abstracts[r]) ]_vars

\* C4: with a deterministic provider, a run that resumes from the checkpoint
\* of a stopped run over the same texts returns the vectors of one
\* uninterrupted call on those texts.
C4_ResumeEqualsOnePass ==
    (pc = "build" /\ runPure)
    => arr.rows = OnePass(abstracts, providerDim, failPos)

C4_Witness ==
    /\ pc = "build" /\ runPure /\ outcome = "running"
    /\ Len(loaded) > 0 /\ Len(loaded) < Len(abstracts)
    /\ calls # <<>>

\* the positions from lo up to, not including, hi, ascending
Positions(lo, hi) == [j \in 1..(IF hi > lo THEN hi - lo ELSE 0) |-> lo + j - 1]

\* C5: a run that starts with a checkpoint of n vectors calls the provider
\* only for the positions >= n, once each and in ascending order, and its
\* first n vectors are the checkpoint's, unchanged, also in the returned array.
C5_ResumeSkipsCheckpointed ==
    /\ pc \in {"loop", "ckpt_open", "ckpt_dump", "final_open", "final_dump",
               "convert", "build", "save_index", "save_map"}
       => /\ start_idx = Len(loaded)
          /\ calls = Positions(start_idx, Len(embeddings))
          /\ SubSeq(embeddings, 1, start_idx) = loaded
    /\ pc \in {"final_open", "final_dump", "convert", "build", "save_index",
               "save_map"}
       => calls = Positions(start_idx, Len(abstracts))
    /\ pc \in {"build", "save_index", "save_map"}
       => SubSeq(arr.rows, 1, start_idx) = loaded

C5_Witness ==
    /\ pc = "build" /\ start_idx > 0 /\ calls # <<>>
    /\ \E p \in 1..Len(loaded) : loaded[p].zero

\* C6: whatever the provider's dimensionality D and wherever its calls fail,
\* generate_embeddings returns one vector per text, an all-zero vector of
\* length D at each failed position.
C6_FailureAbsorbed ==
    /\ outcome # "value_error"
    /\ (pc = "build" /\ start_idx = 0)
       => /\ arr.n = Len(abstracts)
          /\ \A p \in 1..arr.n :
               (p - 1) \in failPos
               => arr.rows[p].zero /\ arr.rows[p].dim = providerDim

\* C7: when the build process stops, the checkpoint file on disk is absent
\* or a complete checkpoint, never an empty or partial file.
C7_CheckpointNeverPartial ==
    pc = "idle" => ckptFile.state # "partial"

\* the multiples of the checkpoint period in (lo, hi], ascending
RECURSIVE MultiplesFrom(_, _)
MultiplesFrom(m, hi) ==
    IF m > hi THEN <<>> ELSE <<m>> \o MultiplesFrom(m + CheckpointEvery, hi)

Multiples(lo, hi) ==
    MultiplesFrom((lo \div CheckpointEvery + 1) * CheckpointEvery, hi)

C8_WritesSoFar ==
    /\ pc = "loop" => writeLog = Multiples(start_idx, Len(embeddings))
    /\ pc \in {"ckpt_open", "ckpt_dump"}
       => /\ Len(embeddings) % CheckpointEvery = 0
          /\ writeLog = Multiples(start_idx, Len(embeddings) - 1)
    /\ pc \in {"final_open", "final_dump"}
       => writeLog = Multiples(start_idx, Len(embeddings))
    /\ pc \in {"convert", "build", "save_index", "save_map"}
       => writeLog = Multiples(start_idx, Len(embeddings)) \o <<Len(embeddings)>>

C8_WriteIsFull ==
    (ckptFile'.state = "complete" /\ ckptFile' # ckptFile)
    => /\ ckptFile'.embeddings = embeddings
       /\ embeddings' = embeddings
       /\ Len(embeddings) = start_idx + Len(calls)

\* C8: with a checkpoint location, the checkpoint is written each time the
\* number of completed vectors reaches a multiple of 500 and once more after
\* the loop (also when no text was left to embed), and every write holds all
\* the vectors completed so far, in position order.
C8_CheckpointSchedule == []C8_WritesSoFar /\ [][C8_WriteIsFull]_vars

C8_Witness ==
    /\ pc = "convert" /\ Len(writeLog) = 2
    /\ writeLog[1] = CheckpointEvery /\ writeLog[2] = Len(abstracts)

\* C9: the checkpoint holds at most as many vectors as the corpus of the run
\* that wrote it, and its vector at position p is the embedding of the text
\* at position p of that corpus.
C9_CheckpointMatchesCorpus ==
    ckptFile.state = "complete"
    => /\ Len(ckptFile.embeddings) <= Len(ckptCorpus)
       /\ \A p \in 1..Len(ckptFile.embeddings) :
            /\ p <= Len(ckptCorpus)
            /\ ckptFile.embeddings[p] \in
                 { ProviderVector(ckptCorpus[p], providerDim), ZeroVector }

\* the records load_abstracts must keep: a .json file whose abstract is
\* present and has a character that is not whitespace
Eligible(d) ==
    { n \in 1..Len(d) :
        /\ d[n].json /\ d[n].hasAbstract
        /\ \E c \in 1..Len(d[n].abstract) : d[n].abstract[c] # Space }

\* t is raw without its leading and trailing whitespace
IsTrimOf(t, raw) ==
    \E a \in 0..Len(raw) :
        /\ a + Len(t) <= Len(raw)
        /\ SubSeq(raw, a + 1, a + Len(t)) = t
        /\ \A c \in 1..Len(raw) : (c <= a \/ c > a + Len(t)) => raw[c] = Space
        /\ t # <<>> /\ t[1] # Space /\ t[Len(t)] # Space

\* C10: load_abstracts returns texts and ids of equal length, the id at
\* position j being the id of the record whose trimmed text is at position
\* j; it keeps exactly the records whose text is present and non-empty after
\* trimming, each once, and a run that finds none ends as "empty".
C10_LoadKeepsNonEmpty ==
    /\ pc # "idle"
       => /\ Len(abstracts) = Len(pmids)
          /\ { pmids[j] : j \in 1..Len(pmids) } = Eligible(dir)
          /\ Len(pmids) = Cardinality(Eligible(dir))
          /\ \A j \in 1..Len(pmids) :
               /\ j <= Len(abstracts)
               /\ pmids[j] \in 1..Len(dir)
               /\ IsTrimOf(abstracts[j], dir[pmids[j]].abstract)
    /\ (pc = "idle" /\ outcome # "none")
       => (outcome = "empty" <=> Eligible(dir) = {})

C10_Witness ==
    /\ pc = "generate" /\ Len(abstracts) = 1
    /\ abstracts[1] = <<"a">> /\ dir[pmids[1]].abstract = <<" ", "a">>
    /\ \E n \in 1..Len(dir) : dir[n].json /\ ~dir[n].hasAbstract

\* C11: load_abstracts returns the texts and the ids in an order fixed by the
\* directory's contents: what a run loads is what every listing order of the
\* same directory gives, so two calls on the same contents agree.
C11_LoadOrderDeterministic ==
    [][ (pc = "idle" /\ pc' = "generate")
        => \A order \in Listings(dir) :
             /\ LoadAbstracts(dir, order).pmids = pmids'
             /\ LoadAbstracts(dir, order).abstracts = abstracts' ]_vars

\* C12: a build run over a directory in which no document qualifies ends at
\* once as "empty": it never reaches the provider loop, and the checkpoint,
\* the index file and the identifier map are what they were before the run.
C12_EmptyCorpusWritesNothing ==
    [][ (pc = "idle" /\ dir' = dir /\ retrieved' = NoRetrieval
         /\ \A order \in Listings(dir) : LoadAbstracts(dir, order).abstracts = <<>>)
        => /\ pc' = "idle" /\ outcome' = "empty"
           /\ calls' = <<>> /\ writeLog' = <<>>
           /\ ckptFile' = ckptFile
           /\ indexFile' = indexFile
           /\ idMapFile' = idMapFile ]_vars

C12_Witness ==
    /\ pc = "idle" /\ outcome = "empty" /\ dir = <<>>
    /\ ckptFile.state = "complete" /\ ckptFile.embeddings # <<>>
    /\ indexFile.exists /\ idMapFile.exists /\ idMapFile.content # <<>>

C14_OutOfBoundsIsFatal ==
    (/\ retrieved.variant # "none"
     /\ \E s \in 1..Len(retrieved.labels) :
          \/ retrieved.labels[s] < 0
          \/ retrieved.labels[s] >= Len(retrieved.pmid_map))
    => retrieved.error # "none" /\ retrieved.ids = <<>>

\* C15: a persisted identifier map and a persisted index of different
\* lengths are never used to answer a query: the load or the retrieval ends
\* in an error and no id is returned.
C15_LengthMismatchIsFatal ==
    (/\ retrieved.variant # "none"
     /\ Len(retrieved.pmid_map) # Len(retrieved.index.rows))
    => retrieved.error # "none" /\ retrieved.ids = <<>>

\* C16: save_index followed by load_faiss_index is a round trip for every
\* index build_faiss_index returns and every id list: the save completes,
\* and the load returns the same ids in the same order and an index with the
\* same rows, which answers every query with the same (id, score) results.
C16_SaveLoadRoundTrip ==
    [][ /\ (pc = "save_index" /\ outcome' # "killed")
           => /\ pc' = "save_map"
              /\ indexFile'.exists /\ indexFile'.content.rows = index.rows
        /\ (pc = "save_map" /\ outcome' = "done")
           => LET l == LoadFaissIndex(indexFile', idMapFile') IN
              /\ l.error = "none"
              /\ l.pmid_map = pmids
              /\ l.index.rows = index.rows
              /\ \A text \in Queries, k \in 1..MaxK :
                   LET q == NormalizeL2(ProviderVector(text, index.d)) IN
                   MapSlots(l.pmid_map, Search(l.index, q, k))
                     = MapSlots(pmids, Search(index, q, k)) ]_vars

\* C17: for every N x D array, either value of the GPU flag and a GPU attempt
\* that succeeds or raises, build_faiss_index returns an index (the attempt's
\* failure ends nothing) that holds N vectors of dimension D.
C17_BuildSurvivesGpuFailure ==
    [][ (pc = "build" /\ outcome' # "killed")
        => /\ pc' = "save_index" /\ outcome' = "running"
           /\ index'.backend \in {"cpu", "gpu"}
           /\ Len(index'.rows) = arr.n
           /\ index'.d = arr.d ]_vars

C17_Witness ==
    /\ pc = "save_index" /\ index.backend = "cpu"
    /\ arr.n = MaxDocs /\ Len(index.rows) = MaxDocs

\* C18: a retrieval that succeeds returns one result per slot of the index
\* search, in the search's order, which is by descending score; result j
\* carries the search's j-th score and the id at the search's j-th position
\* of the identifier map.
C18_ResultsDescendingAndPaired ==
    (retrieved.variant # "none" /\ retrieved.error = "none")
    => /\ Len(retrieved.ids) = Len(retrieved.labels)
       /\ Len(retrieved.scores) = Len(retrieved.labels)
       /\ Len(retrieved.distances) = Len(retrieved.labels)
       /\ \A j \in 1..Len(retrieved.labels) :
            /\ j <= Len(retrieved.scores) /\ j <= Len(retrieved.distances)
               => retrieved.scores[j] = retrieved.distances[j]
            /\ (j < Len(retrieved.labels) /\ j < Len(retrieved.scores))
               => retrieved.scores[j] >= retrieved.scores[j + 1]
            /\ (/\ j <= Len(retrieved.ids)
                /\ retrieved.labels[j] >= 0
                /\ retrieved.labels[j] < Len(retrieved.pmid_map))
               => retrieved.ids[j] = retrieved.pmid_map[retrieved.labels[j] + 1]

C18_Witness ==
    /\ retrieved.variant = "ragbio" /\ retrieved.error = "none"
    /\ retrieved.k = 2 /\ retrieved.labels = <<1, 0>>
    /\ retrieved.ids = <<retrieved.pmid_map[2], retrieved.pmid_map[1]>>
    /\ retrieved.pmid_map[1] # retrieved.pmid_map[2]
    /\ retrieved.scores[1] > retrieved.scores[2]

\* C19: a provider call that fails puts a placeholder at its position and the
\* loop goes on to the next text, no run ends because of such a failure, and
\* a build that completes has reported the number of placeholders it
\* produced, which is the number of its failed provider calls.
C19_FailuresCountedNotFatal ==
    [][ /\ (pc = "loop" /\ i < Len(abstracts) /\ i \in failPos
            /\ outcome' # "killed")
           => /\ pc' \in {"loop", "ckpt_open"}
              /\ embeddings' = Append(embeddings, ZeroVector)
        /\ (failPos # {} /\ pc # "idle") => outcome' # "value_error"
        /\ (pc = "save_map" /\ outcome' = "done")
           => \E line \in Printed :
                /\ line.tag \notin {"RESUME", "WARN", "CHECKPOINT", "INFO"}
                /\ line.n = Len(Warned) ]_vars

\* the parameter a line assigns, if any: its first token that is not a blank
\* is the parameter's name and "=" follows, blanks apart
Assigns(name, line) ==
    \E b \in 1..Len(line) : \E e \in (b + 1)..Len(line) :
        /\ line[b] = name /\ line[e] = "="
        /\ \A m \in 1..(e - 1) : m # b => line[m] \in Whitespace

\* a path without its final separator
Unslashed(path) ==
    IF path # <<>> /\ path[Len(path)] = "/" THEN SubSeq(path, 1, Len(path) - 1)
    ELSE path

C21_MissingConfigNoWrite ==
    [][ updated'.called
        => /\ ~configFile.exists
              => /\ updated'.error = "not_found"
                 /\ configFile' = configFile /\ ~configFile'.exists
           /\ updated'.error = "not_found" => ~configFile.exists ]_vars

C21_Witness ==
    /\ updated.called /\ updated.error = "not_found"
    /\ updated.workspace_dir.val = <<"/", "w">>
    /\ configFile = NoConfig

\* the number of entries in the answers of one run
RECURSIVE EntriesIn(_)
EntriesIn(answers) ==
    IF answers = <<>> THEN 0 ELSE Len(Head(answers)) + EntriesIn(Tail(answers))

\* C22: a run of run_pipeline that extracted at least one entry (structured
\* being true) calls add_structured_data_to_kg once, with every extracted
\* entry under the id of its document; a run with structured false or with
\* no entry makes no call; the run returns the summary, the retrieved ids
\* and the entries passed on.
C22_KgCalledOncePerRun ==
    [][ (run'.called /\ run'.error = "none")
        => LET n == EntriesIn(run'.answers) IN
           /\ ~run'.structured => n = 0
           /\ n > 0
              => /\ Len(run'.kg_calls) = 1
                 /\ Len(run'.kg_calls[1]) = n
                 /\ \A j \in 1..Len(run'.answers) :
                      \A e \in 1..Len(run'.answers[j]) :
                        \E c \in 1..Len(run'.kg_calls[1]) :
                          /\ run'.kg_calls[1][c].drug = run'.answers[j][e].drug
                          /\ run'.kg_calls[1][c].pmid = run'.top_pmids[j]
           /\ n = 0 => run'.kg_calls = <<>>
           /\ Len(run'.returned) = 1
           /\ run'.returned[1].top_pmids = run'.top_pmids
           /\ run'.returned[1].summary
                = [question |-> run'.query, context |-> run'.context_ids]
           /\ Len(run'.returned[1].structured_results) = n
           /\ n > 0 => run'.returned[1].structured_results = run'.kg_calls[1]
      ]_vars

C22_Witness ==
    /\ run.called /\ run.error = "none" /\ run.structured
    /\ Len(run.top_pmids) = 2 /\ run.top_pmids[1] # run.top_pmids[2]
    /\ run.answers[1] = <<>> /\ Len(run.answers[2]) = 2
    /\ Len(run.kg_calls) = 1 /\ Len(run.kg_calls[1]) = 2

\* C23: every save_output appends one record (query, ids, summary) after
\* the records already in the results file, which stay as they are; it
\* writes the JSON file of its query when structured_results is non-empty,
\* with exactly these results, and otherwise writes no JSON file; the JSON
\* files of other names are never touched.
C23_SaveOutputAppends ==
    [][ (run'.called /\ run'.error = "none")
        => LET ret == run'.returned[1]
               name == QueryVar(run'.query)
           IN
           /\ Len(resultsTxt') = Len(resultsTxt) + 1
           /\ SubSeq(resultsTxt', 1, Len(resultsTxt)) = resultsTxt
           /\ resultsTxt'[Len(resultsTxt')]
                = [query |-> run'.query, pmids |-> ret.top_pmids,
                   summary |-> ret.summary]
           /\ \A other \in JsonNames \ {name} : jsonFiles'[other] = jsonFiles[other]
           /\ ret.structured_results # <<>>
              => jsonFiles'[name] = [exists |-> TRUE,
                                     content |-> ret.structured_results]
           /\ ret.structured_results = <<>> => jsonFiles'[name] = jsonFiles[name]
      ]_vars

C23_Witness ==
    /\ Len(resultsTxt) = 2
    /\ resultsTxt[1].query = <<"a", " ", "-", "b">>
    /\ resultsTxt[2].query = <<"A", "-", "b">>
    /\ run.called /\ run.error = "none" /\ run.query = <<"A", "-", "b">>
    /\ Len(run.returned[1].structured_results) = 2
    /\ jsonFiles[<<"a", "_", "b">>].content = run.returned[1].structured_results
    /\ ~jsonFiles[<<"b">>].exists

C24_Named == {"HTTPError", "URLError", "RuntimeError"}

\* C24: fetch_pubmed_ids makes at most `retries` search attempts; it
\* returns the id list of the first attempt that succeeds and makes no
\* attempt after it; when all `retries` attempts fail with an HTTP, URL or
\* runtime error it returns an empty list and raises nothing.
C24_AtMostRetriesAttempts ==
    search.called =>
        LET retries == Len(search.outcomes)
            firstOk == { j \in 1..retries :
                           /\ search.outcomes[j] = "ok"
                           /\ \A m \in 1..(j - 1) : search.outcomes[m] \in C24_Named }
        IN
        /\ search.attempts <= retries
        /\ \A j \in firstOk :
             /\ search.attempts = j
             /\ search.ids = search.idlist
             /\ search.raised = "none"
        /\ (\A j \in 1..retries : search.outcomes[j] \in C24_Named)
             => /\ search.attempts = retries
                /\ search.ids = <<>>
                /\ search.raised = "none"

C24_Witness ==
    /\ search.called
    /\ search.outcomes = <<"HTTPError", "ok", "URLError">>
    /\ search.attempts = 2
    /\ search.ids = search.idlist /\ Len(search.ids) = 2

\* the abstract file of a PMID exists
HasAbstract(pmid) == (pmid \o <<".json">>) \in abstractFolder

\* the metadata file of a PMID exists
HasMetadata(pmid) == (pmid \o <<"_meta", ".json">>) \in metadataFolder

\* the fetcher calls efetch in this step, for the PMID at its position
Fetches ==
    /\ fetchPc = "pmid" /\ Len(fetchLog') > Len(fetchLog)
    /\ fetchLog'[Len(fetchLog) + 1].tag = "efetch"

\* the fetcher prints a line with this tag in this step
Prints(tag) == Len(fetchLog') > Len(fetchLog) /\ fetchLog'[Len(fetchLog')].tag = tag

\* C25: the fetcher resumes from the PMIDs processed before: a run starts
\* with every PMID that has an abstract file in its processed set; a PMID
\* in the processed set is never fetched; a PMID whose saves succeed is
\* added to the set; a PMID whose fetch or save raises is not added and the
\* batch goes on with the next PMID; the processed set never shrinks.
C25_ResumeSkipsProcessed ==
    [][ /\ processed \subseteq processed'
        /\ (fetchPc = "idle" /\ fetchPc' = "loop")
             => \A p \in PmidPool : HasAbstract(p) => p \in processed'
        /\ Fetches => batchPmids[pos] \notin processed
        /\ (/\ fetchPc = "pmid" /\ fetchPc' # "idle"
            /\ pos <= Len(batchPmids) /\ batchPmids[pos] \in processed)
             => /\ fetchLog' = Append(fetchLog, [tag |-> "SKIP", pmid |-> batchPmids[pos]])
                /\ pos' = pos + 1
        /\ Prints("OK")
             => /\ batchPmids[pos] \in processed'
                /\ (batchPmids[pos] \o <<".json">>) \in abstractFolder'
                /\ (batchPmids[pos] \o <<"_meta", ".json">>) \in metadataFolder'
        /\ Prints("ERROR")
             => /\ processed' = processed
                /\ fetchPc' = "pmid" /\ pos' = pos + 1
                /\ batchPmids' = batchPmids
      ]_vars

\* a second run skips a PMID filed by the first and goes on after a PMID
\* whose fetch raised
C25_Witness ==
    /\ fetchRuns = 2 /\ fetchPc = "pmid"
    /\ batchPmids = << <<"11">>, <<"12">> >> /\ pos = 3
    /\ fetchLog = << [tag |-> "SKIP", pmid |-> <<"11">>],
                     [tag |-> "efetch", pmid |-> <<"12">>],
                     [tag |-> "ERROR", pmid |-> <<"12">>] >>
    /\ processed = { <<"11">> }

\* C30: every PMID a run treats as already processed has its metadata
\* file, whatever happened in the runs before.
C30_ProcessedHaveMetadata ==
    \A p \in processed : HasMetadata(p)

\* the build process is inside generate_embeddings
InGenerate == pc \in {"loop", "ckpt_open", "ckpt_dump", "final_open", "final_dump"}

\* the number of vectors in the last checkpoint that was completely written:
\* this run's last completed write, or else the checkpoint it resumed from
LastComplete == IF writeLog # <<>> THEN writeLog[Len(writeLog)] ELSE Len(loaded)

\* the vectors completed so far that the last complete checkpoint lacks
Lag == Len(embeddings) - LastComplete

\* C27 as stated: at every step of generate_embeddings the last completely
\* written checkpoint is a prefix of the in-memory vector sequence and lacks
\* at most 499 of the vectors completed so far.
C27_LagBelowCheckpointEvery ==
    InGenerate
    => /\ LastComplete <= Len(embeddings)
       /\ CheckpointLoads(ckptFile)
            => ckptFile.embeddings = SubSeq(embeddings, 1, LastComplete)
       /\ Lag <= CheckpointEvery - 1

\* C27, amended: at every step of generate_embeddings a completely written
\* checkpoint file holds the first vectors of the in-memory sequence, as
\* many as the last completed write (or the checkpoint resumed from) had;
\* it lacks at most 499 of the vectors completed so far at the head of a
\* loop iteration and at most 500 between the completion of the vector that
\* makes a checkpoint due and the end of the write of that checkpoint.
C27_LagAtMostCheckpointEvery ==
    InGenerate
    => /\ LastComplete <= Len(embeddings)
       /\ CheckpointLoads(ckptFile)
            => ckptFile.embeddings = SubSeq(embeddings, 1, LastComplete)
       /\ Lag <= CheckpointEvery
       /\ pc = "loop" => Lag <= CheckpointEvery - 1
       /\ Lag = CheckpointEvery => pc \in {"ckpt_open", "ckpt_dump"}

\* the vector that makes the first checkpoint due is in memory and the
\* write of the checkpoint has not begun
C27_Witness ==
    /\ pc = "ckpt_open" /\ Len(embeddings) = CheckpointEvery
    /\ writeLog = <<>> /\ loaded = <<>> /\ ckptFile = AbsentFile
    /\ Lag = CheckpointEvery

\* the build process has passed the resume step of generate_embeddings
Resumed == pc \in {"loop", "ckpt_open", "ckpt_dump", "final_open", "final_dump",
                   "convert", "build", "save_index", "save_map"}

\* C28: a placeholder is permanent. In a run that resumed from a checkpoint,
\* a position whose checkpointed vector is the placeholder is never sent to
\* the provider, and its vector stays the placeholder in memory and in
\* every checkpoint the run writes; a run whose checkpoint covers the whole
\* corpus (the checkpoint of a completed build over it) makes no provider
\* call, and the array and the index it builds are the checkpoint's vectors.
C28_PlaceholderPermanent ==
    Resumed
    => /\ \A p \in 1..Len(loaded) :
            loaded[p].zero
            => /\ \A c \in 1..Len(calls) : calls[c] # p - 1
               /\ p <= Len(embeddings) /\ embeddings[p] = ZeroVector
               /\ CheckpointLoads(ckptFile)
                    => /\ p <= Len(ckptFile.embeddings)
                       /\ ckptFile.embeddings[p] = ZeroVector
       /\ (loaded # <<>> /\ Len(loaded) = Len(abstracts))
            => /\ calls = <<>>
               /\ embeddings = loaded
               /\ pc \in {"build", "save_index", "save_map"} => arr.rows = loaded
               /\ pc \in {"save_index", "save_map"}
                    => index.rows = [r \in 1..Len(loaded) |-> NormalizeL2(loaded[r])]

\* a further build over a built corpus whose first text had failed: no
\* call, the placeholder is in the new index
C28_Witness ==
    /\ pc = "save_map" /\ Len(abstracts) = 2
    /\ Len(loaded) = 2 /\ loaded[1] = ZeroVector /\ ~loaded[2].zero
    /\ calls = <<>> /\ 0 \in failPos
    /\ index.rows[1] = ZeroVector
    /\ ckptFile = CheckpointContent(loaded)

\* C26: two build processes on one checkpoint path can corrupt it. What
\* holds in every interleaving: every piece of the file is a hole or the
\* piece one of the processes dumps at that position; as long as no process
\* has used the file while the other had it open, a closed file is the
\* complete dump of a process and no resume is rejected. The corrupted file
\* itself is the reachable state C26_Witness.
C26_CorruptionOnlyByOverlap ==
    /\ \A k \in 1..Len(sharedCkpt.cells) :
         \/ sharedCkpt.cells[k] = Hole
         \/ \E p \in Procs :
              /\ proc[p].pc \in {"dump", "done"}
              /\ k <= Len(Dump(proc[p].embeddings))
              /\ sharedCkpt.cells[k] = Dump(proc[p].embeddings)[k]
    /\ ~overlap
       => /\ \A p \in Procs : proc[p].pc # "json_error"
          /\ (sharedCkpt.exists /\ \A p \in Procs : proc[p].pc # "dump")
               => \E p \in Procs : /\ proc[p].pc = "done"
                                   /\ sharedCkpt.cells = Dump(proc[p].wrote)

\* both processes have written and closed the checkpoint, and the file,
\* which json.load accepts, holds a vector sequence neither of them wrote
C26_Witness ==
    /\ \A p \in Procs : proc[p].pc = "done" /\ Len(proc[p].wrote) = Len(RaceTexts)
    /\ overlap
    /\ ValidJson(sharedCkpt.cells)
    /\ \A p \in Procs : Vectors(sharedCkpt.cells) # proc[p].wrote

====
